---- MODULE Spec2Model ----
(***************************************************************************)
(* A model of XFrameBridge (src/src/bridge.ts): two root bridges, one in   *)
(* the parent window and one in the embedded frame, each the target of the *)
(* other, with their channel instances.  A channel instance shares its     *)
(* root's three maps and differs from it only by channelName, so an        *)
(* operation is identified by the side it runs on and the channelName of   *)
(* the instance it is called on.                                           *)
(*                                                                         *)
(* Strings that the code concatenates or compares by prefix (method names, *)
(* channel names, registry keys) are sequences of one-character strings;   *)
(* texts of errors are sequences of tokens that end with such a string.    *)
(* An optional value (channel?: string, error?: string) is a set: {} is    *)
(* undefined and {v} is the value v.                                       *)
(***************************************************************************)
EXTENDS Integers, Sequences, FiniteSets, TLC

\* ------------------------------------------------------------------ bounds
MaxReq == 2        \* calls of request()
MaxHandlers == 2   \* entries of a handlers map
MaxListeners == 2  \* entries of an eventHandlers map
MaxInject == 1     \* envelopes the environment adds to the channel
MaxChannels == 2   \* calls of channel() in a window

\* ------------------------------------------------------------ the two sides
Sides == {"parent", "child"}

Peer(s) == IF s = "parent" THEN "child" ELSE "parent"

Origin(s) == IF s = "parent" THEN "https://parent.test" ELSE "https://child.test"

ForeignOrigin == "https://evil.test"

\* options.targetOrigin || '*': the parent names the frame's origin, the
\* frame keeps the default.
targetOrigin(s) == IF s = "parent" THEN Origin("child") ELSE "*"

\* ------------------------------------------------------------------ strings
Undefined == {}

Some(v) == {v}

Val(o) == CHOOSE v \in o : TRUE

\* JavaScript truthiness of an optional string: undefined and '' are falsy.
Truthy(o) == o # Undefined /\ Val(o) # <<>>

\* `${v}` of an optional string.
Str(o) == IF o = Undefined THEN <<"undefined">> ELSE Val(o)

startsWith(key, prefix) ==
    /\ Len(key) >= Len(prefix)
    /\ SubSeq(key, 1, Len(prefix)) = prefix

ChannelNames == { <<"a">>, <<"b">> }

\* channelName of an instance: undefined for a root.
Scopes == {Undefined} \cup { Some(n) : n \in ChannelNames }

\* The (channelName, name) pairs the applications use.  Root method 'a:m'
\* and method 'm' of channel 'a' are both in.
Targets == { <<Undefined, <<"a", ":", "m">>>>,
             <<Some(<<"a">>), <<"m">>>>, <<Some(<<"b">>), <<"m">>>> }

\* The payload of the n-th request: the code never reads a payload, so one
\* distinct value per request loses nothing.
PayloadNames == <<"p1", "p2", "p3", "p4">>

Payload(n) == << PayloadNames[n] >>

\* ------------------------------------------------------------ wire messages
PROTOCOL_ID == "__XFRAME_BRIDGE__"

\* A value of which the code asks the typeof is a pair <<typeof, value>>.
TypeOf(v) == v[1]

MT_REQUEST == <<"string", "REQUEST">>
MT_RESPONSE == <<"string", "RESPONSE">>
MT_EVENT == <<"string", "EVENT">>
MT_ERROR == <<"string", "ERROR">>

\* Date.now(): informational, never read back.
Now == <<"number", 0>>

Message(id, type, method, channel, data, error) ==
    [ jsType |-> "object", protocol |-> PROTOCOL_ID, id |-> id, type |-> type,
      method |-> method, channel |-> channel, data |-> data, error |-> error,
      timestamp |-> Now ]

\* ------------------------------------------------------------------- maps
EmptyMap == [k \in {} |-> {}]

MapSet(f, k, v) == [x \in DOMAIN f \cup {k} |-> IF x = k THEN v ELSE f[x]]

MapDelete(f, k) == [x \in DOMAIN f \ {k} |-> f[x]]

\* ------------------------------------------------------- request handlers
\* What a call of an application's RequestHandler ((data) => Promise<R> | R)
\* does: return a value, return a promise that fulfils later, throw
\* new Error('boom'), return a promise that rejects later with the string
\* 'bad', or throw new Error().
Behaviours == {"return", "fulfil", "throw", "reject", "throwBare"}

IsAsync(b) == b \in {"fulfil", "reject"}

Returns(b) == b \in {"return", "fulfil"}

\* The value the handler of the registration `reg` returns for `arg`: one
\* value per handler and argument.
ReturnValue(reg, arg) == Str(reg.scope) \o <<".">> \o reg.method \o <<"(">> \o arg

\* What a failing handler throws: an Error with a message, or another value.
Thrown(b) ==
    CASE b = "throw" -> [isError |-> TRUE, message |-> <<"boom">>, string |-> <<"Error: boom">>]
      [] b = "reject" -> [isError |-> FALSE, message |-> <<>>, string |-> <<"bad">>]
      [] b = "throwBare" -> [isError |-> TRUE, message |-> <<>>, string |-> <<"Error">>]

Listeners == {"l1", "l2"}

\* What a call of an application's EventHandler does.
ListenerBehaviours == {"return", "throw"}

\* ---------------------------------------------------------------- instances
\* The Map objects made by the n-th constructor call in the window of side s.
\* The root is the call 0.
MapsOf(s, n) == << s, n >>

\* Mutant: every instance makes maps of its own.
XFrameBridge_OwnMaps(s, n, options, channelName, rootBridge) ==
    [ target |-> Peer(s),
      targetOrigin |-> IF options # Undefined THEN Val(options) ELSE "*",
      channelName |-> channelName,
      isRootBridge |-> rootBridge = Undefined,
      rootBridge |-> rootBridge,
      handlers |-> MapsOf(s, n),
      eventHandlers |-> MapsOf(s, n),
      pendingRequests |-> MapsOf(s, n),
      messageHandler |-> rootBridge = Undefined ]

\* new XFrameBridge(target, { targetOrigin }, channelName, rootBridge), the
\* n-th call in the window of side s: the fields of the object.  rootBridge
\* is undefined or the root object; messageHandler tells whether the
\* constructor attached the 'message' listener.
XFrameBridge(s, n, options, channelName, rootBridge) ==
    [ target |-> Peer(s),
      targetOrigin |-> IF options # Undefined THEN Val(options) ELSE "*",
      channelName |-> channelName,
      isRootBridge |-> rootBridge = Undefined,
      rootBridge |-> rootBridge,
      handlers |-> IF rootBridge = Undefined THEN MapsOf(s, n) ELSE Val(rootBridge).handlers,
      eventHandlers |-> IF rootBridge = Undefined THEN MapsOf(s, n)
                        ELSE Val(rootBridge).eventHandlers,
      pendingRequests |-> IF rootBridge = Undefined THEN MapsOf(s, n)
                          ELSE Val(rootBridge).pendingRequests,
      messageHandler |-> rootBridge = Undefined ]

\* The options the application of side s gives its root: the choice that
\* targetOrigin(s) describes.
RootOptions(s) == IF s = "parent" THEN Some(Origin("child")) ELSE Undefined

\* Mutant: a channel made from a channel prefixes its name with its maker's.
NewChannel_Nested(s, n, this, name) ==
    XFrameBridge(s, n, Some(this.targetOrigin),
                 IF this.isRootBridge THEN Some(name)
                 ELSE Some(Val(this.channelName) \o <<":">> \o name),
                 IF this.isRootBridge THEN Some(this) ELSE this.rootBridge)

\* this.channel(name), the n-th constructor call in the window of side s.
NewChannel(s, n, this, name) ==
    LET root == IF this.isRootBridge THEN Some(this) ELSE this.rootBridge
    IN  XFrameBridge(s, n, Some(this.targetOrigin), Some(name), root)

\* The root the application of side s constructs.
Root(s) == XFrameBridge(s, 0, RootOptions(s), Undefined, Undefined)

\* ------------------------------------------------------------------ state
VARIABLES
    messageHandler,   \* [side -> BOOLEAN]: the 'message' listener is attached
    handlers,         \* [side -> key :> registered request handler]
    eventHandlers,    \* [side -> key :> set of registered listeners]
    pendingRequests,  \* [side -> id :> [channel, timer]]
    timers,           \* [side -> set of armed setTimeout callbacks]
    promises,         \* [side -> id :> the promise request() returned]
    inbox,            \* [side -> queue of message events posted to its window]
    calls,            \* [side -> the runs of handleRequest, suspended or done]
    nextId,           \* the number of the next identifier generateId yields
    injected,         \* the message events other scripts have posted so far
    invoked,          \* [side -> the runs of handleEvent that called listeners]
    instances         \* [side -> the XFrameBridge objects constructed so far]

vars == << messageHandler, handlers, eventHandlers, pendingRequests, timers,
           promises, inbox, calls, nextId, injected, invoked, instances >>

Init ==
    /\ messageHandler = [s \in Sides |-> TRUE]
    /\ handlers = [s \in Sides |-> EmptyMap]
    /\ eventHandlers = [s \in Sides |-> EmptyMap]
    /\ pendingRequests = [s \in Sides |-> EmptyMap]
    /\ timers = [s \in Sides |-> {}]
    /\ promises = [s \in Sides |-> EmptyMap]
    /\ inbox = [s \in Sides |-> <<>>]
    /\ calls = [s \in Sides |-> <<>>]
    /\ nextId = 1
    /\ injected = <<>>
    /\ invoked = [s \in Sides |-> <<>>]
    /\ instances = [s \in Sides |->
                        { [this |-> Root(s), serial |-> 0, name |-> <<>>, via |-> Undefined] }]

\* ------------------------------------------------------------- private parts
\* Mutant: the key leaves the channel out.
getHandlerKey_NoPrefix(channelName, method, channel) == method

getHandlerKey(channelName, method, channel) ==
    LET ch == IF channel # Undefined THEN channel ELSE channelName
    IN  IF Truthy(ch) THEN Val(ch) \o <<":">> \o method ELSE method

generateId == <<"string", nextId>>

\* target.postMessage(message, targetOrigin): the browser queues a message
\* event on the target window when the window's origin matches targetOrigin.
postMessage(net, s, message) ==
    IF targetOrigin(s) = "*" \/ targetOrigin(s) = Origin(Peer(s))
    THEN [net EXCEPT ![Peer(s)] = Append(@, [origin |-> Origin(s), data |-> message])]
    ELSE net

\* Mutant: the marker is not compared.
isValidMessage_AnyProtocol(message) ==
    /\ message.jsType = "object"
    /\ TypeOf(message.id) = "string"
    /\ TypeOf(message.type) = "string"
    /\ TypeOf(message.timestamp) = "number"

\* Mutant: the timestamp is not looked at.
isValidMessage_NoTimestamp(message) ==
    /\ message.jsType = "object"
    /\ message.protocol = "__XFRAME_BRIDGE__"
    /\ TypeOf(message.id) = "string"
    /\ TypeOf(message.type) = "string"

\* message && typeof message === 'object' && ...: null is falsy, a string is
\* no object, and the fields are read of an object only.
isValidMessage(message) ==
    /\ message.jsType = "object"
    /\ message.protocol = PROTOCOL_ID
    /\ TypeOf(message.id) = "string"
    /\ TypeOf(message.type) = "string"
    /\ TypeOf(message.timestamp) = "number"

\* Mutant: the timer stays armed.
clearTimeout_Noop(armed, handle) == armed

\* Mutant: every timer of the window is cleared.
clearTimeout_All(armed, handle) == {}

clearTimeout(armed, handle) == { t \in armed : t.handle # handle }

\* resolve / reject of the promise of request `id`: a call is recorded; the
\* promise keeps the first.
Settle(proms, id, how, value) ==
    [proms EXCEPT ![id].settled = Append(@, [how |-> how, value |-> value])]

TimeoutText(method) == <<"Request timeout: ">> \o method

NoHandlerText(method) == <<"No handler for method: ">> \o method

BridgeDestroyed == <<"Bridge destroyed">>

ChannelDestroyed == <<"Channel destroyed">>

UnknownError == <<"Unknown error">>

\* Mutant: the response leaves the handler's result out.
sendResponse_NoData(net, s, id, data, channel) ==
    postMessage(net, s, Message(id, MT_RESPONSE, Undefined, channel, <<>>, Undefined))

sendResponse(net, s, id, data, channel) ==
    postMessage(net, s, Message(id, MT_RESPONSE, Undefined, channel, data, Undefined))

\* Mutant: the error is built and never posted.
sendError_NotPosted(net, s, id, error, channel) == net

sendError(net, s, id, error, channel) ==
    postMessage(net, s, Message(id, MT_ERROR, Undefined, channel, <<>>, Some(error)))

\* ------------------------------------------------------------ public methods
\* request(method, data) on the instance of side s whose channelName is c.
Request(s, c, method) ==
    /\ nextId <= MaxReq
    /\ LET id == generateId
           data == Payload(nextId)
           message == Message(id, MT_REQUEST, Some(method), c, data, Undefined)
       IN  /\ timers' = [timers EXCEPT ![s] =
                            @ \cup {[handle |-> nextId, id |-> id, method |-> method]}]
           /\ pendingRequests' = [pendingRequests EXCEPT ![s] =
                            MapSet(@, id, [channel |-> c, timer |-> nextId])]
           /\ promises' = [promises EXCEPT ![s] =
                            MapSet(@, id, [method |-> method, channel |-> c,
                                           data |-> data, settled |-> <<>>])]
           /\ inbox' = postMessage(inbox, s, message)
    /\ nextId' = nextId + 1
    /\ UNCHANGED << messageHandler, handlers, eventHandlers, calls, injected, invoked, instances >>

\* Mutant: the callback rejects and leaves the entry in pendingRequests.
TimerFire_KeepsEntry(s, t) ==
    /\ t \in timers[s]
    /\ \A u \in timers[s] : t.handle <= u.handle
    /\ timers' = [timers EXCEPT ![s] = @ \ {t}]
    /\ promises' = [promises EXCEPT ![s] =
          [@ EXCEPT ![t.id].settled = Append(@, [how |-> "reject",
                                                   value |-> <<"Request timeout: ">> \o t.method])]]
    /\ UNCHANGED << messageHandler, handlers, eventHandlers, pendingRequests, inbox,
                    calls, nextId, injected, invoked, instances >>

\* Mutant: the callback removes the entry and rejects nothing.
TimerFire_NoReject(s, t) ==
    /\ t \in timers[s]
    /\ \A u \in timers[s] : t.handle <= u.handle
    /\ timers' = [timers EXCEPT ![s] = @ \ {t}]
    /\ pendingRequests' = [pendingRequests EXCEPT ![s] = MapDelete(@, t.id)]
    /\ UNCHANGED << messageHandler, handlers, eventHandlers, promises, inbox,
                    calls, nextId, injected, invoked, instances >>

\* The setTimeout callback of a request.  Every instance of a side has the
\* same delay, so the timers of a side expire in the order they were set.
TimerFire(s, t) ==
    /\ t \in timers[s]
    /\ \A u \in timers[s] : t.handle <= u.handle
    /\ timers' = [timers EXCEPT ![s] = @ \ {t}]
    /\ pendingRequests' = [pendingRequests EXCEPT ![s] = MapDelete(@, t.id)]
    /\ promises' = [promises EXCEPT ![s] = Settle(@, t.id, "reject", TimeoutText(t.method))]
    /\ UNCHANGED << messageHandler, handlers, eventHandlers, inbox, calls,
                    nextId, injected, invoked, instances >>

\* on(method, handler) on the instance of side s whose channelName is c.  The
\* entry remembers the registration it comes from.
On(s, c, method) ==
    LET key == getHandlerKey(c, method, Undefined)
    IN  /\ key \in DOMAIN handlers[s] \/ Cardinality(DOMAIN handlers[s]) < MaxHandlers
        /\ handlers' = [handlers EXCEPT ![s] =
                          MapSet(@, key, [scope |-> c, method |-> method])]
        /\ UNCHANGED << messageHandler, eventHandlers, pendingRequests, timers,
                        promises, inbox, calls, nextId, injected, invoked, instances >>

\* listen(event, handler): the listener l of the instance with channelName c.
\* The Set of a key holds a function once, so a function already in it stays
\* as it is; an element remembers the registration that added it.
Listen(s, c, event, l) ==
    LET key == getHandlerKey(c, event, Undefined)
        had == IF key \in DOMAIN eventHandlers[s] THEN eventHandlers[s][key] ELSE {}
        added == IF \E x \in had : x.fn = l THEN had
                 ELSE had \cup {[fn |-> l, scope |-> c, event |-> event]}
    IN  /\ key \in DOMAIN eventHandlers[s]
              \/ Cardinality(DOMAIN eventHandlers[s]) < MaxListeners
        /\ eventHandlers' = [eventHandlers EXCEPT ![s] = MapSet(@, key, added)]
        /\ UNCHANGED << messageHandler, handlers, pendingRequests, timers,
                        promises, inbox, calls, nextId, injected, invoked, instances >>

\* off(event, handler?) on the instance of side s whose channelName is c;
\* handler is undefined or a listener.
Off(s, c, event, handler) ==
    LET key == getHandlerKey(c, event, Undefined)
    IN  /\ eventHandlers' = [eventHandlers EXCEPT ![s] =
              IF handler = Undefined THEN MapDelete(@, key)
              ELSE IF key \notin DOMAIN @ THEN @
              ELSE LET left == { x \in @[key] : x.fn # Val(handler) }
                   IN  IF left = {} THEN MapDelete(@, key) ELSE MapSet(@, key, left)]
        /\ UNCHANGED << messageHandler, handlers, pendingRequests, timers,
                        promises, inbox, calls, nextId, injected, invoked, instances >>

\* emit(event, data) on the instance of side s whose channelName is c.
Emit(s, c, event) ==
    /\ nextId <= MaxReq
    /\ inbox' = postMessage(inbox, s, Message(generateId, MT_EVENT, Some(event), c,
                                              Payload(nextId), Undefined))
    /\ nextId' = nextId + 1
    /\ UNCHANGED << messageHandler, handlers, eventHandlers, pendingRequests, timers,
                    promises, calls, injected, invoked, instances >>

\* reject(new Error(text)) of every request of `ids`, in the order of the map.
RECURSIVE RejectAll(_, _, _)
RejectAll(proms, ids, text) ==
    IF ids = {} THEN proms
    ELSE LET id == CHOOSE x \in ids : \A y \in ids : x[2] <= y[2]
         IN  RejectAll(Settle(proms, id, "reject", text), ids \ {id}, text)

\* Mutant: the root rejects its requests and leaves their timers armed.
destroyRoot_TimersLeft(s) ==
    /\ messageHandler' = [messageHandler EXCEPT ![s] = FALSE]
    /\ promises' = [promises EXCEPT ![s] =
          RejectAll(@, DOMAIN pendingRequests[s], <<"Bridge destroyed">>)]
    /\ pendingRequests' = [pendingRequests EXCEPT ![s] = EmptyMap]
    /\ handlers' = [handlers EXCEPT ![s] = EmptyMap]
    /\ eventHandlers' = [eventHandlers EXCEPT ![s] = EmptyMap]
    /\ UNCHANGED << timers, inbox, calls, nextId, injected, invoked, instances >>

destroyRoot(s) ==
    /\ messageHandler' = [messageHandler EXCEPT ![s] = FALSE]
    /\ timers' = [timers EXCEPT ![s] =
          { t \in @ : \A id \in DOMAIN pendingRequests[s] :
                          pendingRequests[s][id].timer # t.handle }]
    /\ promises' = [promises EXCEPT ![s] =
          RejectAll(@, DOMAIN pendingRequests[s], BridgeDestroyed)]
    /\ pendingRequests' = [pendingRequests EXCEPT ![s] = EmptyMap]
    /\ handlers' = [handlers EXCEPT ![s] = EmptyMap]
    /\ eventHandlers' = [eventHandlers EXCEPT ![s] = EmptyMap]
    /\ UNCHANGED << inbox, calls, nextId, injected, invoked, instances >>

destroyChannel(s, c) ==
    LET channelPrefix == Str(c) \o <<":">>
        gone == { id \in DOMAIN pendingRequests[s] : pendingRequests[s][id].channel = c }
    IN  /\ handlers' = [handlers EXCEPT ![s] =
              [k \in { x \in DOMAIN @ : ~startsWith(x, channelPrefix) } |-> @[k]]]
        /\ eventHandlers' = [eventHandlers EXCEPT ![s] =
              [k \in { x \in DOMAIN @ : ~startsWith(x, channelPrefix) } |-> @[k]]]
        /\ timers' = [timers EXCEPT ![s] =
              { t \in @ : \A id \in gone : pendingRequests[s][id].timer # t.handle }]
        /\ promises' = [promises EXCEPT ![s] = RejectAll(@, gone, ChannelDestroyed)]
        /\ pendingRequests' = [pendingRequests EXCEPT ![s] =
              [id \in DOMAIN @ \ gone |-> @[id]]]
        /\ UNCHANGED << messageHandler, inbox, calls, nextId, injected, invoked, instances >>

\* destroy() on the instance of side s whose channelName is c: the root's
\* instance has isRootBridge, an instance made by channel() has not.
Destroy(s, c) ==
    IF c = Undefined THEN destroyRoot(s) ELSE destroyChannel(s, c)

\* ---------------------------------------------------------- inbound messages
\* The envelopes posted to the peer of s between the queues `before` and `after`.
Posted(before, after, s) ==
    LET q == after[Peer(s)]
        n == Len(before[Peer(s)])
    IN  [i \in 1..(Len(q) - n) |-> q[n + i].data]

\* Mutant: String(error) for every failure, an Error too.
ErrorText_AlwaysString(e) == e.string

\* error instanceof Error ? error.message : String(error)
ErrorText(e) == IF e.isError THEN e.message ELSE e.string

\* The reply that ends a run of handleRequest whose handler behaved as b.
replyOf(net, s, message, reg, b) ==
    IF Returns(b)
    THEN sendResponse(net, s, message.id, ReturnValue(reg, message.data), message.channel)
    ELSE sendError(net, s, message.id, ErrorText(Thrown(b)), message.channel)

Call(message, reg, b, status, replies) ==
    [ id |-> message.id, channel |-> message.channel, method |-> message.method,
      data |-> message.data, reg |-> reg, behaviour |-> b, status |-> status,
      replies |-> replies ]

\* handleRequest up to its first suspension: without a handler the error is
\* sent at once; a handler that returns or throws is awaited within the same
\* task; a handler that returns a promise leaves the run suspended.  B is
\* what the application's handlers may do.
handleRequest(s, net, message, B) ==
    LET key == getHandlerKey(Undefined, Str(message.method), message.channel)
    IN  /\ IF key \notin DOMAIN handlers[s]
           THEN LET out == sendError(net, s, message.id,
                                     NoHandlerText(Str(message.method)), message.channel)
                IN  /\ inbox' = out
                    /\ calls' = [calls EXCEPT ![s] = Append(@,
                          Call(message, Undefined, "none", "done", Posted(net, out, s)))]
           ELSE \E b \in B :
                LET reg == handlers[s][key]
                    out == replyOf(net, s, message, reg, b)
                IN  IF IsAsync(b)
                    THEN /\ inbox' = net
                         /\ calls' = [calls EXCEPT ![s] = Append(@,
                               Call(message, Some(reg), b, "running", <<>>))]
                    ELSE /\ inbox' = out
                         /\ calls' = [calls EXCEPT ![s] = Append(@,
                               Call(message, Some(reg), b, "done", Posted(net, out, s)))]
        /\ UNCHANGED << messageHandler, handlers, eventHandlers, pendingRequests,
                        timers, promises, nextId, injected, invoked, instances >>

\* The rest of a suspended run of handleRequest: the handler's promise settles.
HandlerSettle(s, i) ==
    /\ i \in DOMAIN calls[s]
    /\ calls[s][i].status = "running"
    /\ LET call == calls[s][i]
           out == replyOf(inbox, s, call, Val(call.reg), call.behaviour)
       IN  /\ inbox' = out
           /\ calls' = [calls EXCEPT ![s][i].status = "done",
                                     ![s][i].replies = @ \o Posted(inbox, out, s)]
    /\ UNCHANGED << messageHandler, handlers, eventHandlers, pendingRequests,
                    timers, promises, nextId, injected, invoked, instances >>

\* Mutant: the reply's channel is not compared with the request's.
handleResponse_NoChannelCheck(s, net, message) ==
    /\ inbox' = net
    /\ IF message.id \notin DOMAIN pendingRequests[s]
       THEN UNCHANGED << pendingRequests, timers, promises >>
       ELSE /\ timers' = [timers EXCEPT ![s] =
                            clearTimeout(@, pendingRequests[s][message.id].timer)]
            /\ pendingRequests' = [pendingRequests EXCEPT ![s] = MapDelete(@, message.id)]
            /\ promises' = [promises EXCEPT ![s] =
                  IF message.type = <<"string", "ERROR">>
                  THEN Settle(@, message.id, "reject",
                              IF Truthy(message.error) THEN Val(message.error)
                                                       ELSE <<"Unknown error">>)
                  ELSE Settle(@, message.id, "resolve", message.data)]
    /\ UNCHANGED << messageHandler, handlers, eventHandlers, calls, nextId, injected,
                    invoked, instances >>

\* Mutant: the reply completes the promise and leaves the entry and its timer.
handleResponse_KeepsEntry(s, net, message) ==
    /\ inbox' = net
    /\ IF message.id \notin DOMAIN pendingRequests[s]
       THEN UNCHANGED promises
       ELSE IF pendingRequests[s][message.id].channel # message.channel
       THEN UNCHANGED promises
       ELSE promises' = [promises EXCEPT ![s] =
              IF message.type = <<"string", "ERROR">>
              THEN [@ EXCEPT ![message.id].settled = Append(@, [how |-> "reject",
                       value |-> IF Truthy(message.error) THEN Val(message.error)
                                                          ELSE <<"Unknown error">>])]
              ELSE [@ EXCEPT ![message.id].settled = Append(@, [how |-> "resolve",
                       value |-> message.data])]]
    /\ UNCHANGED << messageHandler, handlers, eventHandlers, pendingRequests, timers,
                    calls, nextId, injected, invoked, instances >>

handleResponse(s, net, message) ==
    /\ inbox' = net
    /\ IF message.id \notin DOMAIN pendingRequests[s]
       THEN UNCHANGED << pendingRequests, timers, promises >>
       ELSE LET pending == pendingRequests[s][message.id]
            IN  IF pending.channel # message.channel
                THEN UNCHANGED << pendingRequests, timers, promises >>
                ELSE /\ timers' = [timers EXCEPT ![s] = clearTimeout(@, pending.timer)]
                     /\ pendingRequests' = [pendingRequests EXCEPT ![s] =
                                               MapDelete(@, message.id)]
                     /\ promises' = [promises EXCEPT ![s] =
                          IF message.type = MT_ERROR
                          THEN Settle(@, message.id, "reject",
                                      IF Truthy(message.error) THEN Val(message.error)
                                                               ELSE UnknownError)
                          ELSE Settle(@, message.id, "resolve", message.data)]
    /\ UNCHANGED << messageHandler, handlers, eventHandlers, calls, nextId, injected, invoked, instances >>

\* The orders in which a Set may be iterated.
Orders(set) ==
    { f \in [1..Cardinality(set) -> set] : \A x \in set : \E k \in DOMAIN f : f[k] = x }

\* The calls a run of handleEvent makes when it iterates in `order` and
\* the listeners behave as `does`.
Ran(order, does, data) ==
    [ k \in DOMAIN order |->
        [fn |-> order[k].fn, data |-> data, threw |-> does[order[k]] = "throw"] ]

\* Mutant: the loop ends at the first listener that throws.
RanLoop_NoCatch(order, does, data) ==
    LET all == Ran(order, does, data)
        stop == { k \in DOMAIN all : all[k].threw }
    IN  IF stop = {} THEN all
        ELSE SubSeq(all, 1, CHOOSE k \in stop : \A m \in stop : k <= m)

\* for (const handler of handlers) try { handler(message.data) } catch {}
RanLoop(order, does, data) == Ran(order, does, data)

\* handleEvent calls every listener of the key, each within its own try; a
\* listener changes nothing of the bridge, whether it returns or throws.
handleEvent(s, net, message) ==
    LET key == getHandlerKey(Undefined, Str(message.method), message.channel)
    IN  /\ inbox' = net
        /\ IF key \notin DOMAIN eventHandlers[s] \/ eventHandlers[s][key] = {}
           THEN UNCHANGED invoked
           ELSE \E order \in Orders(eventHandlers[s][key]) :
                \E does \in [eventHandlers[s][key] -> ListenerBehaviours] :
                    invoked' = [invoked EXCEPT ![s] = Append(@,
                        [ id |-> message.id, key |-> key,
                          ran |-> RanLoop(order, does, message.data) ])]
        /\ UNCHANGED << messageHandler, handlers, eventHandlers, pendingRequests,
                        timers, promises, calls, nextId, injected, instances >>

Ignore(net) ==
    /\ inbox' = net
    /\ UNCHANGED << messageHandler, handlers, eventHandlers, pendingRequests,
                    timers, promises, calls, nextId, injected, invoked, instances >>

handleMessage(s, net, event, B) ==
    IF targetOrigin(s) # "*" /\ event.origin # targetOrigin(s)
    THEN Ignore(net)
    ELSE IF ~isValidMessage(event.data)
    THEN Ignore(net)
    ELSE IF event.data.type = MT_REQUEST
    THEN handleRequest(s, net, event.data, B)
    ELSE IF event.data.type \in {MT_RESPONSE, MT_ERROR}
    THEN handleResponse(s, net, event.data)
    ELSE IF event.data.type = MT_EVENT
    THEN handleEvent(s, net, event.data)
    ELSE Ignore(net)

\* Mutant: a message event waits until no run of handleRequest is suspended.
Deliver_Blocking(s, B) ==
    /\ inbox[s] # <<>>
    /\ \A i \in DOMAIN calls[s] : calls[s][i].status # "running"
    /\ LET event == Head(inbox[s])
           net == [inbox EXCEPT ![s] = Tail(@)]
       IN  IF messageHandler[s] THEN handleMessage(s, net, event, B) ELSE Ignore(net)

\* The window of side s dispatches its next message event: to handleMessage
\* while the root's listener is attached, to nobody after removeEventListener.
Deliver(s, B) ==
    /\ inbox[s] # <<>>
    /\ LET event == Head(inbox[s])
           net == [inbox EXCEPT ![s] = Tail(@)]
       IN  IF messageHandler[s] THEN handleMessage(s, net, event, B) ELSE Ignore(net)

\* An envelope that does not come from the peer's bridge: a reply (a copy of
\* one, a late one, one made up) to a request already issued, under any
\* channel, posted from the peer's window or from a foreign one.
EnvEvents ==
    { [origin |-> o, data |-> Message(<<"string", n>>, type, Undefined, c, <<"x">>, e)] :
        o \in {Origin("child"), ForeignOrigin}, n \in 1..(nextId - 1),
        type \in {MT_RESPONSE, MT_ERROR}, c \in Scopes, e \in {Some(<<"x">>)} }

\* Any value another script may post to the window: an object that may lack
\* the marker, carry an identifier that is no string or is the empty string
\* (<<"string", 0>>; generateId never yields it), a kind outside MessageType,
\* a timestamp that is no number; null; a string.  It names method 'm' of
\* channel 'a' and the identifier of a request already issued, if any.
RawValues ==
    { [ jsType |-> j, protocol |-> p, id |-> i, type |-> t, method |-> Some(<<"m">>),
        channel |-> Some(<<"a">>), data |-> <<"x">>, error |-> Some(<<"x">>),
        timestamp |-> ts ] :
        j \in {"object", "null", "string"},
        p \in {PROTOCOL_ID, "undefined"},
        i \in {<<"string", nextId - 1>>, <<"number", nextId - 1>>, <<"string", 0>>},
        t \in {MT_REQUEST, MT_RESPONSE, MT_EVENT, MT_ERROR,
               <<"string", "BOGUS">>, <<"undefined", "undefined">>},
        ts \in {Now, <<"string", 0>>} }

RawEvents ==
    { [origin |-> o, data |-> v] : o \in {Origin("child"), ForeignOrigin}, v \in RawValues }

Inject(s, event) ==
    /\ Len(injected) < MaxInject
    /\ injected' = Append(injected, event)
    /\ inbox' = [inbox EXCEPT ![s] = Append(@, event)]
    /\ UNCHANGED << messageHandler, handlers, eventHandlers, pendingRequests,
                    timers, promises, calls, nextId, invoked, instances >>

\* ------------------------------------------------------ calls on an object
\* The object `this` works on the maps of the root of side s and posts as
\* that root does: the operations of side s describe its methods.
Holds(this, s) ==
    /\ this.handlers = MapsOf(s, 0)
    /\ this.eventHandlers = MapsOf(s, 0)
    /\ this.pendingRequests = MapsOf(s, 0)
    /\ this.target = Peer(s)
    /\ this.targetOrigin = targetOrigin(s)

\* inst.this.channel(name) in the window of side s.
Channel(s, inst, name) ==
    /\ inst \in instances[s]
    /\ Cardinality(instances[s]) <= MaxChannels
    /\ instances' = [instances EXCEPT ![s] = @ \cup
          { [ this |-> NewChannel(s, Cardinality(@), inst.this, name),
              serial |-> Cardinality(@), name |-> name, via |-> inst.this.channelName ] }]
    /\ UNCHANGED << messageHandler, handlers, eventHandlers, pendingRequests, timers,
                    promises, inbox, calls, nextId, injected, invoked >>

\* this.request(method)
RequestOn(this, method) ==
    \E s \in Sides : Holds(this, s) /\ Request(s, this.channelName, method)

\* this.on(method, handler)
OnOn(this, method) ==
    \E s \in Sides : Holds(this, s) /\ On(s, this.channelName, method)

\* this.listen(event, l)
ListenOn(this, event, l) ==
    \E s \in Sides : Holds(this, s) /\ Listen(s, this.channelName, event, l)

\* this.off(event, handler?)
OffOn(this, event, handler) ==
    \E s \in Sides : Holds(this, s) /\ Off(s, this.channelName, event, handler)

\* this.destroy()
DestroyOn(this) ==
    \E s \in Sides :
        /\ Holds(this, s)
        /\ IF this.isRootBridge THEN destroyRoot(s) ELSE destroyChannel(s, this.channelName)

\* ------------------------------------------------------------ specifications
\* The parent's application sends requests, the frame's answers them; each
\* may destroy any of its instances at any time.
Next ==
    \/ \E t \in Targets : Request("parent", t[1], t[2])
    \/ \E t \in Targets : On("child", t[1], t[2])
    \/ \E s \in Sides, c \in Scopes : Destroy(s, c)
    \/ \E s \in Sides : Deliver(s, Behaviours)
    \/ \E s \in Sides : \E i \in DOMAIN calls[s] : HandlerSettle(s, i)
    \/ \E s \in Sides : \E t \in timers[s] : TimerFire(s, t)

Spec == Init /\ [][Next]_vars

\* The parent's application registers, listens, sends requests and destroys
\* instances; the frame has no handler.
NextTeardown ==
    \/ \E t \in Targets : Request("parent", t[1], t[2])
    \/ \E t \in Targets : On("parent", t[1], t[2])
    \/ \E t \in Targets : Listen("parent", t[1], t[2], "l1")
    \/ \E c \in Scopes : Destroy("parent", c)
    \/ \E s \in Sides : Deliver(s, {"return"})
    \/ \E s \in Sides : \E t \in timers[s] : TimerFire(s, t)

SpecTeardown == Init /\ [][NextTeardown]_vars

\* The parent's requests reach a frame without handlers, and the environment
\* adds replies of its own.
NextEnv ==
    \/ \E t \in Targets : Request("parent", t[1], t[2])
    \/ \E c \in Scopes : Destroy("parent", c)
    \/ \E event \in EnvEvents : Inject("parent", event)
    \/ \E s \in Sides : Deliver(s, {})
    \/ \E s \in Sides : \E t \in timers[s] : TimerFire(s, t)

SpecEnv == Init /\ [][NextEnv]_vars

\* The parent, which names the frame's origin, holds a handler, a listener and
\* a pending request of channel 'a' while scripts of any origin post values
\* of any shape to its window.
NextInbound ==
    \/ Request("parent", Some(<<"a">>), <<"m">>)
    \/ On("parent", Some(<<"a">>), <<"m">>)
    \/ Listen("parent", Some(<<"a">>), <<"m">>, "l1")
    \/ \E event \in RawEvents : Inject("parent", event)
    \/ \E s \in Sides : Deliver(s, {"return"})

SpecInbound == Init /\ [][NextInbound]_vars

\* The frame's application listens and stops listening, with two listeners,
\* on its root and on its channels, holds a handler and sends requests; the
\* parent's emits events.
NextEvents ==
    \/ \E t \in Targets : \E l \in Listeners : Listen("child", t[1], t[2], l)
    \/ \E t \in Targets : \E l \in Listeners : Off("child", t[1], t[2], Some(l))
    \/ \E t \in Targets : Off("child", t[1], t[2], Undefined)
    \/ \E t \in Targets : Emit("parent", t[1], t[2])
    \/ On("child", Some(<<"b">>), <<"m">>)
    \/ Request("child", Some(<<"b">>), <<"m">>)
    \/ \E s \in Sides : Deliver(s, {"return"})

SpecEvents == Init /\ [][NextEvents]_vars

\* Both applications send requests; the frame's has handlers that return a
\* promise, which fulfils or rejects later, and a listener; the parent's
\* emits events.
NextBusy ==
    \/ \E t \in Targets : On("child", t[1], t[2])
    \/ Listen("child", Some(<<"a">>), <<"m">>, "l1")
    \/ \E s \in Sides : \E t \in Targets : Request(s, t[1], t[2])
    \/ Emit("parent", Some(<<"a">>), <<"m">>)
    \/ \E s \in Sides : Deliver(s, {"fulfil", "reject"})
    \/ \E s \in Sides : \E i \in DOMAIN calls[s] : HandlerSettle(s, i)

SpecBusy == Init /\ [][NextBusy]_vars

\* The parent's application makes channel instances, from its root and from
\* its channels, and calls the methods of any object it has made.
NextChannels ==
    \/ \E inst \in instances["parent"] : \E name \in ChannelNames :
          Channel("parent", inst, name)
    \/ \E inst \in instances["parent"] : RequestOn(inst.this, <<"m">>)
    \/ \E inst \in instances["parent"] : OnOn(inst.this, <<"m">>)
    \/ \E inst \in instances["parent"] : ListenOn(inst.this, <<"m">>, "l1")
    \/ \E inst \in instances["parent"] : OffOn(inst.this, <<"m">>, Some("l1"))
    \/ \E inst \in instances["parent"] : DestroyOn(inst.this)
    \/ \E s \in Sides : Deliver(s, {"return"})

SpecChannels == Init /\ [][NextChannels]_vars

\* The (channelName, name) pairs of the applications when names hold ':'
\* and a channel has the empty name: the root's 'm' and 'a:m', 'm' of the
\* channels 'a' and '', ':m' of the root.
KeyTargets ==
    { <<Undefined, <<"m">>>>, <<Undefined, <<"a", ":", "m">>>>, <<Undefined, <<":", "m">>>>,
      <<Some(<<"a">>), <<"m">>>>, <<Some(<<>>), <<"m">>>> }

\* The frame's application registers handlers and listeners under those
\* pairs and destroys its instances; the parent's sends requests for them.
NextKeys ==
    \/ \E t \in KeyTargets : On("child", t[1], t[2])
    \/ \E t \in KeyTargets : Listen("child", t[1], t[2], "l1")
    \/ \E t \in KeyTargets : Request("parent", t[1], t[2])
    \/ \E t \in KeyTargets : Destroy("child", t[1])
    \/ \E s \in Sides : Deliver(s, {"return"})

SpecKeys == Init /\ [][NextKeys]_vars

\* The round trip in an event loop that runs: a queued message event is
\* dispatched, an armed timer expires, a handler's promise settles.  Either
\* root may be destroyed.
NextLive ==
    \/ \E t \in Targets : Request("parent", t[1], t[2])
    \/ \E t \in Targets : On("child", t[1], t[2])
    \/ \E c \in Scopes : Destroy("parent", c)
    \/ Destroy("child", Undefined)
    \/ \E s \in Sides : Deliver(s, {"fulfil", "throw"})
    \/ \E s \in Sides : \E i \in DOMAIN calls[s] : HandlerSettle(s, i)
    \/ \E s \in Sides : \E t \in timers[s] : TimerFire(s, t)

SpecLive ==
    /\ Init
    /\ [][NextLive]_vars
    /\ \A s \in Sides : WF_vars(Deliver(s, {"fulfil", "throw"}))
    /\ \A s \in Sides : WF_vars(\E i \in DOMAIN calls[s] : HandlerSettle(s, i))
    /\ \A s \in Sides : WF_vars(\E t \in timers[s] : TimerFire(s, t))

\* ------------------------------------------------------------------ claims
Resolved(v) == [how |-> "resolve", value |-> v]

Rejected(text) == [how |-> "reject", value |-> text]

\* The text names the method: the method's characters occur in it.
Names(text, method) ==
    \E k \in 1..Len(text) :
        k + Len(method) - 1 <= Len(text) /\ SubSeq(text, k, k + Len(method) - 1) = method

IsReply(message) ==
    isValidMessage(message) /\ message.type \in {MT_RESPONSE, MT_ERROR}

\* A reply to request id is still queued for side s.
ReplyInFlight(s, id) ==
    \E k \in DOMAIN inbox[s] : IsReply(inbox[s][k].data) /\ inbox[s][k].data.id = id

\* The registration on(method) of the instance with channelName c.
Registration(c, method) == [scope |-> c, method |-> method]

TimedOut(s, id) ==
    /\ promises[s][id].settled # <<>>
    /\ promises[s][id].settled[1] = Rejected(TimeoutText(promises[s][id].method))

\* C1: a request for m with payload p issued on scope c that reaches a
\* responder holding the handler registered for m under c calls that handler,
\* with p; if the handler returns, the caller's promise is never completed by
\* anything but a resolution with exactly the returned value, a timeout or a
\* teardown, and it is completed once the reply has been dispatched to a root
\* that still listens.
C1_ResolvesWithHandlerValue ==
    /\ [](\A s \in Sides : \A id \in DOMAIN promises[s] : \A i \in DOMAIN calls[Peer(s)] :
            LET prom == promises[s][id]
                call == calls[Peer(s)][i]
            IN  (call.id = id /\ call.reg = Some(Registration(prom.channel, prom.method)))
                => /\ call.data = prom.data
                   /\ Returns(call.behaviour) =>
                        /\ \A k \in DOMAIN prom.settled :
                              prom.settled[k] \in
                                  { Resolved(ReturnValue(Val(call.reg), prom.data)),
                                    Rejected(TimeoutText(prom.method)),
                                    Rejected(BridgeDestroyed), Rejected(ChannelDestroyed) }
                        /\ (call.status = "done" /\ messageHandler[s] /\ ~ReplyInFlight(s, id))
                              => prom.settled # <<>>)
    /\ [][ \A s \in Sides :
             Len(calls'[s]) = Len(calls[s]) + 1 =>
                LET call == calls'[s][Len(calls'[s])]
                    reg == Registration(call.channel, Str(call.method))
                IN  (\E key \in DOMAIN handlers[s] : handlers[s][key] = reg)
                       => call.reg = Some(reg)
         ]_vars

\* A request on channel 'a' was answered by a handler that fulfilled its
\* promise later, and the caller's promise is resolved with that value.
C1_Witness ==
    \E id \in DOMAIN promises["parent"] : \E i \in DOMAIN calls["child"] :
        LET prom == promises["parent"][id]
            call == calls["child"][i]
        IN  /\ call.id = id
            /\ prom.channel = Some(<<"a">>)
            /\ call.reg = Some(Registration(prom.channel, prom.method))
            /\ call.behaviour = "fulfil"
            /\ prom.settled = << Resolved(ReturnValue(Val(call.reg), prom.data)) >>

\* C3: the timer of a request removes its entry from pendingRequests and
\* rejects its promise, until then not completed, with a timeout error that
\* names the method; and the dispatch of a Response or Error that carries the
\* identifier of a timed-out request changes nothing but the queue it leaves.
C3_TimeoutThenLateReply ==
    [][ /\ \A s \in Sides : \A t \in timers[s] :
              TimerFire(s, t) =>
                  /\ t.id \notin DOMAIN pendingRequests'[s]
                  /\ promises'[s][t.id].settled =
                        << Rejected(TimeoutText(promises[s][t.id].method)) >>
                  /\ Names(promises'[s][t.id].settled[1].value, promises[s][t.id].method)
        /\ \A s \in Sides :
              ( /\ inbox[s] # <<>>
                /\ inbox'[s] = Tail(inbox[s])
                /\ IsReply(Head(inbox[s]).data)
                /\ Head(inbox[s]).data.id \in DOMAIN promises[s]
                /\ TimedOut(s, Head(inbox[s]).data.id) )
              => /\ inbox' = [inbox EXCEPT ![s] = Tail(@)]
                 /\ UNCHANGED << messageHandler, handlers, eventHandlers,
                                 pendingRequests, timers, promises, calls,
                                 nextId, injected, invoked, instances >>
      ]_vars

\* A request timed out, its reply was sent and has since been dispatched to
\* the listening root, and the promise still holds the timeout alone.
C3_Witness ==
    \E id \in DOMAIN promises["parent"] : \E i \in DOMAIN calls["child"] :
        /\ TimedOut("parent", id)
        /\ Len(promises["parent"][id].settled) = 1
        /\ id \notin DOMAIN pendingRequests["parent"]
        /\ messageHandler["parent"]
        /\ calls["child"][i].id = id
        /\ Len(calls["child"][i].replies) = 1
        /\ ~ReplyInFlight("parent", id)

\* C4: a handler registered for m on one channel is never called for a
\* request for m sent on a channel with another name.
C4_ChannelIsolation ==
    \A s \in Sides : \A i \in DOMAIN calls[s] :
        LET call == calls[s][i]
        IN  ~ ( /\ call.reg # Undefined
                /\ call.channel # Undefined
                /\ Val(call.reg).scope # Undefined
                /\ Val(call.reg).scope # call.channel
                /\ call.method = Some(Val(call.reg).method) )

\* Handlers for m are registered on 'a' and on 'b'; a request for m on each
\* channel called the handler of its own channel.
C4_Witness ==
    \E i, j \in DOMAIN calls["child"] :
        /\ calls["child"][i].channel = Some(<<"a">>)
        /\ calls["child"][i].reg = Some(Registration(Some(<<"a">>), <<"m">>))
        /\ calls["child"][j].channel = Some(<<"b">>)
        /\ calls["child"][j].reg = Some(Registration(Some(<<"b">>), <<"m">>))

\* C7: a run of handleRequest has posted no reply while its handler is
\* pending and exactly one once it is over: a Response or an Error that
\* carries the request's identifier.
C7_ExactlyOneReply ==
    \A s \in Sides : \A i \in DOMAIN calls[s] :
        LET call == calls[s][i]
        IN  /\ call.status = "running" => call.replies = <<>>
            /\ call.status = "done" =>
                  /\ Len(call.replies) = 1
                  /\ call.replies[1].id = call.id
                  /\ call.replies[1].type \in {MT_RESPONSE, MT_ERROR}

\* All four kinds of run are over: no handler, a handler that returned, one
\* that fulfilled later, one that rejected later.
C7_Witness ==
    \E i, j \in DOMAIN calls["child"] :
        /\ calls["child"][i].status = "done"
        /\ calls["child"][j].status = "done"
        /\ calls["child"][i].behaviour = "none"
        /\ calls["child"][j].behaviour = "reject"
        /\ calls["child"][i].replies[1].type = MT_ERROR
        /\ calls["child"][j].replies[1].type = MT_ERROR

\* C2: the promise of a request is completed at most once, whatever the
\* order of replies (the peer's, copies of them, late ones), timer and
\* destroy() of the root or of a channel.
C2_AtMostOneCompletion ==
    \A s \in Sides : \A id \in DOMAIN promises[s] : Len(promises[s][id].settled) <= 1

\* Two replies to one request have been dispatched to the listening root,
\* the frame's own and one more, and the promise holds one completion.
C2_Witness ==
    \E id \in DOMAIN promises["parent"] : \E i \in DOMAIN calls["child"] :
        /\ calls["child"][i].id = id
        /\ Len(calls["child"][i].replies) = 1
        /\ injected # <<>>
        /\ inbox["parent"] = <<>>
        /\ messageHandler["parent"]
        /\ nextId = 2
        /\ promises["parent"][id].settled = << Resolved(<<"x">>) >>

\* C6: destroy() of a root rejects every request pending at that moment with
\* 'Bridge destroyed', on whatever instance it was issued, leaves none of
\* their timers armed and leaves handlers, eventHandlers and pendingRequests
\* empty; the promises already completed stay as they are.
C6_RootDestroy ==
    [][ \A s \in Sides :
          destroyRoot(s) =>
              /\ \A id \in DOMAIN pendingRequests[s] :
                    /\ promises'[s][id].settled = << Rejected(BridgeDestroyed) >>
                    /\ \A t \in timers'[s] : t.id # id
              /\ \A id \in DOMAIN promises[s] \ DOMAIN pendingRequests[s] :
                    promises'[s][id] = promises[s][id]
              /\ DOMAIN handlers'[s] = {}
              /\ DOMAIN eventHandlers'[s] = {}
              /\ DOMAIN pendingRequests'[s] = {}
      ]_vars

\* The root was destroyed while a request of the root and a request of
\* channel 'a' were pending: both are rejected with 'Bridge destroyed'.
C6_Witness ==
    \E id1, id2 \in DOMAIN promises["parent"] :
        /\ ~messageHandler["parent"]
        /\ promises["parent"][id1].channel = Undefined
        /\ promises["parent"][id2].channel = Some(<<"a">>)
        /\ promises["parent"][id1].settled = << Rejected(BridgeDestroyed) >>
        /\ promises["parent"][id2].settled = << Rejected(BridgeDestroyed) >>
        /\ timers["parent"] = {}

C5_ChannelDestroyFrame ==
    [][ \A s \in Sides : \A c \in Scopes \ {Undefined} :
          destroyChannel(s, c) =>
              /\ \A id \in DOMAIN pendingRequests[s] :
                    IF pendingRequests[s][id].channel = c
                    THEN /\ id \notin DOMAIN pendingRequests'[s]
                         /\ promises'[s][id].settled = << Rejected(ChannelDestroyed) >>
                         /\ \A t \in timers'[s] : t.id # id
                    ELSE /\ id \in DOMAIN pendingRequests'[s]
                         /\ pendingRequests'[s][id] = pendingRequests[s][id]
                         /\ promises'[s][id] = promises[s][id]
                         /\ \E t \in timers'[s] : t.id = id
              /\ \A key \in DOMAIN handlers[s] :
                    IF handlers[s][key].scope = c
                    THEN key \notin DOMAIN handlers'[s]
                    ELSE /\ key \in DOMAIN handlers'[s]
                         /\ handlers'[s][key] = handlers[s][key]
              /\ \A key \in DOMAIN eventHandlers[s] :
                    { l \in eventHandlers[s][key] : l.scope # c } =
                        IF key \in DOMAIN eventHandlers'[s]
                        THEN eventHandlers'[s][key] ELSE {}
      ]_vars

\* C8: a request for m that finds, at the responder, no handler registered
\* for m under the request's channel calls no handler and is answered by one
\* Error whose text names m; the caller's promise is completed by nothing but
\* a rejection that names m or a teardown.
C8_UnregisteredMethodRejects ==
    \A s \in Sides : \A i \in DOMAIN calls[s] :
        LET call == calls[s][i]
            method == Str(call.method)
        IN  call.reg # Some(Registration(call.channel, method))
            => /\ call.reg = Undefined
               /\ Len(call.replies) = 1
               /\ call.replies[1].type = MT_ERROR
               /\ call.replies[1].id = call.id
               /\ Names(Str(call.replies[1].error), method)
               /\ \A id \in DOMAIN promises[Peer(s)] :
                     id = call.id =>
                        \A k \in DOMAIN promises[Peer(s)][id].settled :
                            LET done == promises[Peer(s)][id].settled[k]
                            IN  /\ done.how = "reject"
                                /\ \/ Names(done.value, method)
                                   \/ done.value \in {BridgeDestroyed, ChannelDestroyed}

\* The message text of the failure of a handler: 'boom' of new Error('boom'),
\* the rejection value 'bad' itself, '' of new Error().
MessageText(b) ==
    CASE b = "throw" -> <<"boom">>
      [] b = "reject" -> <<"bad">>
      [] b = "throwBare" -> <<>>

\* What the caller of a request whose handler failed with `text` is told.
RejectionText(text) == IF text = <<>> THEN UnknownError ELSE text

FailedCalls(s) ==
    { i \in DOMAIN calls[s] :
        calls[s][i].status = "done" /\ calls[s][i].behaviour \in {"throw", "reject", "throwBare"} }

\* C9 as stated: a run of handleRequest whose handler failed has posted one
\* Error that carries the failure's message text, and the caller's promise is
\* completed by nothing but a rejection with that text, a timeout or a
\* teardown.
C9_RejectedWithFailureText ==
    \A s \in Sides : \A i \in FailedCalls(s) :
        LET call == calls[s][i]
            text == MessageText(call.behaviour)
        IN  /\ Len(call.replies) = 1
            /\ call.replies[1].type = MT_ERROR
            /\ call.replies[1].error = Some(text)
            /\ \A id \in DOMAIN promises[Peer(s)] :
                  id = call.id =>
                     \A k \in DOMAIN promises[Peer(s)][id].settled :
                         promises[Peer(s)][id].settled[k] \in
                             { Rejected(text),
                               Rejected(TimeoutText(promises[Peer(s)][id].method)),
                               Rejected(BridgeDestroyed), Rejected(ChannelDestroyed) }

\* C9, amended: as C9 with the rejection's text being 'Unknown error' when
\* the failure's message text is empty; and the step in which a handler
\* fails leaves the responder's maps and its message listener as they were.
C9_RejectedWithTextOrUnknown ==
    /\ [](\A s \in Sides : \A i \in FailedCalls(s) :
            LET call == calls[s][i]
                text == MessageText(call.behaviour)
            IN  /\ Len(call.replies) = 1
                /\ call.replies[1].type = MT_ERROR
                /\ call.replies[1].id = call.id
                /\ call.replies[1].error = Some(text)
                /\ \A id \in DOMAIN promises[Peer(s)] :
                      id = call.id =>
                         /\ \A k \in DOMAIN promises[Peer(s)][id].settled :
                               promises[Peer(s)][id].settled[k] \in
                                   { Rejected(RejectionText(text)),
                                     Rejected(TimeoutText(promises[Peer(s)][id].method)),
                                     Rejected(BridgeDestroyed), Rejected(ChannelDestroyed) }
                         /\ (messageHandler[Peer(s)] /\ ~ReplyInFlight(Peer(s), id))
                               => promises[Peer(s)][id].settled # <<>>)
    /\ [][ \A s \in Sides :
             (\E i \in FailedCalls(s)' : i \notin FailedCalls(s))
                 => UNCHANGED << messageHandler, handlers, eventHandlers,
                                 pendingRequests, timers, promises >>
         ]_vars

\* A handler threw new Error('boom') and the caller is rejected with 'boom';
\* another threw new Error() and the caller is rejected with 'Unknown error'.
C9_Witness ==
    \E i, j \in FailedCalls("child") :
        /\ calls["child"][i].behaviour = "throw"
        /\ calls["child"][j].behaviour = "throwBare"
        /\ promises["parent"][calls["child"][i].id].settled = << Rejected(<<"boom">>) >>
        /\ promises["parent"][calls["child"][j].id].settled = << Rejected(UnknownError) >>

\* The step dispatches the message event at the head of the queue of side s.
Dispatched(s) ==
    /\ inbox[s] # <<>>
    /\ inbox'[s] = Tail(inbox[s])

\* A message event the claim C11 speaks of: no marker, an identifier that is
\* no string, or an origin other than the one the instance names.
Malformed(s, event) ==
    \/ event.data.protocol # "__XFRAME_BRIDGE__"
    \/ event.data.id[1] # "string"
    \/ (s = "parent" /\ event.origin # Origin("child"))

\* C11: the dispatch of a message event that lacks the marker, whose id is
\* no string or whose origin is not the configured one pops the event and
\* changes nothing else: no handler runs, no listener runs, no promise is
\* completed, nothing is posted, the three maps and the timers stay.
C11_MalformedInboundIgnored ==
    [][ \A s \in Sides :
          (Dispatched(s) /\ Malformed(s, Head(inbox[s])))
              => /\ inbox' = [inbox EXCEPT ![s] = Tail(@)]
                 /\ UNCHANGED << messageHandler, handlers, eventHandlers,
                                 pendingRequests, timers, promises, calls, invoked >>
      ]_vars

\* A Response for the pending request, malformed in one of the three ways,
\* was dispatched to the parent while a handler and a listener were
\* registered: the request is still pending and its promise open.
C11_Witness ==
    /\ injected # <<>>
    /\ Malformed("parent", injected[1])
    /\ injected[1].data.type = MT_RESPONSE
    /\ injected[1].data.id = <<"string", 1>>
    /\ inbox["parent"] = <<>>
    /\ messageHandler["parent"]
    /\ DOMAIN handlers["parent"] # {}
    /\ DOMAIN eventHandlers["parent"] # {}
    /\ <<"string", 1>> \in DOMAIN pendingRequests["parent"]
    /\ promises["parent"][<<"string", 1>>].settled = <<>>
    /\ \E t \in timers["parent"] : t.id = <<"string", 1>>

\* What C14 calls valid: the marker, a non-empty string identifier, a kind of
\* MessageType, a numeric timestamp.
WellFormed(message) ==
    /\ message.jsType = "object"
    /\ message.protocol = "__XFRAME_BRIDGE__"
    /\ message.id[1] = "string" /\ message.id[2] # 0
    /\ message.type \in { <<"string", k>> : k \in {"REQUEST", "RESPONSE", "EVENT", "ERROR"} }
    /\ message.timestamp[1] = "number"

\* The marker and the three typeof tests, nothing about the strings' contents.
Typed(message) ==
    /\ message.jsType = "object"
    /\ message.protocol = "__XFRAME_BRIDGE__"
    /\ message.id[1] = "string"
    /\ message.type[1] = "string"
    /\ message.timestamp[1] = "number"

\* C14 as stated: isValidMessage accepts a value if and only if it carries
\* the marker, a non-empty string identifier, a recognized kind and a numeric
\* timestamp.
C14_AcceptsIffWellFormed ==
    \A s \in Sides : \A k \in DOMAIN inbox[s] :
        isValidMessage(inbox[s][k].data) <=> WellFormed(inbox[s][k].data)

\* C14, amended: isValidMessage accepts a value if and only if it is an
\* object with the marker, an identifier that is a string, a kind that is a
\* string and a timestamp that is a number; a value it rejects has no effect
\* when dispatched, and an accepted REQUEST, whatever its identifier, starts
\* a run of handleRequest.
C14_AcceptsIffTyped ==
    /\ [](\A s \in Sides : \A k \in DOMAIN inbox[s] :
            isValidMessage(inbox[s][k].data) <=> Typed(inbox[s][k].data))
    /\ [][ (Dispatched("parent") /\ Head(inbox["parent"]).origin = Origin("child"))
                 => LET message == Head(inbox["parent"]).data
                    IN  /\ ~Typed(message)
                           => UNCHANGED << messageHandler, handlers, eventHandlers,
                                           pendingRequests, timers, promises, calls, invoked >>
                        /\ (Typed(message) /\ message.type = MT_REQUEST)
                           => /\ Len(calls'["parent"]) = Len(calls["parent"]) + 1
                              /\ calls'["parent"][Len(calls'["parent"])].id = message.id
         ]_vars

\* A REQUEST with the empty string as identifier was accepted and answered,
\* and a value of a kind outside MessageType was accepted and routed nowhere.
C14_Witness ==
    /\ injected # <<>>
    /\ inbox["parent"] = <<>>
    /\ \/ /\ injected[1].data.id = <<"string", 0>>
          /\ \E i \in DOMAIN calls["parent"] :
                /\ calls["parent"][i].id = <<"string", 0>>
                /\ Len(calls["parent"][i].replies) = 1
       \/ /\ Typed(injected[1].data)
          /\ injected[1].data.type = <<"string", "BOGUS">>
          /\ injected[1].origin = Origin("child")

\* The listeners registered in a map, each with the instance and the event
\* name of its listen().
Registered(map) ==
    { [scope |-> x.scope, event |-> x.event, fn |-> x.fn] :
        x \in UNION { map[key] : key \in DOMAIN map } }

\* C12: off(event) of the instance with channelName c removes the listeners
\* that c registered for the event, all of them; off(event, l) removes l
\* alone; the listeners of other events and of other instances' scopes, the
\* handlers and the pending requests stay as they were.
C12_OffFrame ==
    [][ \A s \in Sides : \A t \in Targets :
        \A handler \in {Undefined} \cup { Some(l) : l \in Listeners } :
          Off(s, t[1], t[2], handler) =>
              /\ Registered(eventHandlers'[s]) =
                    { r \in Registered(eventHandlers[s]) :
                        ~ ( /\ r.scope = t[1]
                            /\ r.event = t[2]
                            /\ (handler = Undefined \/ r.fn = Val(handler)) ) }
              /\ UNCHANGED << handlers, pendingRequests, timers, promises >>
      ]_vars

\* `namespace:name` if namespaced, else the bare name.
QualifiedKey(c, name) ==
    IF c # Undefined /\ Val(c) # <<>> THEN Val(c) \o <<":">> \o name ELSE name

\* C18: the dispatch of an Event for e in namespace c calls every listener
\* held under the key of (c, e) once, with the event's payload, and no other
\* listener, whichever of them throw; and the step changes nothing else but
\* the queue the event leaves.
C18_EveryListenerOnce ==
    [][ \A s \in Sides :
          ( /\ Dispatched(s)
            /\ messageHandler[s]
            /\ Typed(Head(inbox[s]).data)
            /\ Head(inbox[s]).data.type = MT_EVENT
            /\ (s = "parent" => Head(inbox[s]).origin = Origin("child")) )
          => LET message == Head(inbox[s]).data
                 key == QualifiedKey(message.channel, Val(message.method))
                 listeners == IF key \in DOMAIN eventHandlers[s]
                              THEN { x.fn : x \in eventHandlers[s][key] } ELSE {}
             IN  /\ IF listeners = {}
                    THEN invoked'[s] = invoked[s]
                    ELSE /\ Len(invoked'[s]) = Len(invoked[s]) + 1
                         /\ SubSeq(invoked'[s], 1, Len(invoked[s])) = invoked[s]
                         /\ LET ran == invoked'[s][Len(invoked'[s])].ran
                            IN  /\ Len(ran) = Cardinality(listeners)
                                /\ { ran[k].fn : k \in DOMAIN ran } = listeners
                                /\ \A k \in DOMAIN ran : ran[k].data = message.data
                 /\ inbox' = [inbox EXCEPT ![s] = Tail(@)]
                 /\ UNCHANGED << messageHandler, handlers, eventHandlers,
                                 pendingRequests, timers, promises, calls >>
      ]_vars

\* An event reached two listeners of one key: the first called threw, the
\* second was called all the same, and the listener of another key was not.
C18_Witness ==
    \E i \in DOMAIN invoked["child"] :
        LET run == invoked["child"][i]
        IN  /\ Len(run.ran) = 2
            /\ run.ran[1].threw
            /\ run.ran[1].fn # run.ran[2].fn
            /\ run.ran[2].data = run.ran[1].data
            /\ \E key \in DOMAIN eventHandlers["child"] : key # run.key
            /\ inbox["child"] = <<>>

\* C17: the dispatch of a Response or Error whose identifier is that of a
\* pending request and whose channel is not the one recorded for it leaves
\* the record, its armed timer and the promise as they were.
C17_MismatchedReplyDiscarded ==
    [][ \A s \in Sides :
          ( /\ Dispatched(s)
            /\ messageHandler[s]
            /\ Typed(Head(inbox[s]).data)
            /\ Head(inbox[s]).data.type \in {MT_RESPONSE, MT_ERROR}
            /\ Head(inbox[s]).data.id \in DOMAIN pendingRequests[s]
            /\ pendingRequests[s][Head(inbox[s]).data.id].channel
                  # Head(inbox[s]).data.channel )
          => LET id == Head(inbox[s]).data.id
             IN  /\ UNCHANGED << pendingRequests, timers, promises >>
                 /\ promises[s][id].settled = <<>>
                 /\ \E t \in timers'[s] : t.id = id /\ t.handle = pendingRequests[s][id].timer
      ]_vars

\* A Response of the frame's origin with the identifier of the pending
\* request and another channel has been dispatched, ahead of the frame's own
\* reply that is still queued: the request is pending, its timer armed.
C17_Witness ==
    \E id \in DOMAIN pendingRequests["parent"] :
        /\ injected # <<>>
        /\ injected[1].origin = Origin("child")
        /\ injected[1].data.id = id
        /\ injected[1].data.channel # pendingRequests["parent"][id].channel
        /\ injected[1].data.type = MT_RESPONSE
        /\ messageHandler["parent"]
        /\ Len(inbox["parent"]) = 1
        /\ inbox["parent"][1].data.id = id
        /\ inbox["parent"][1].data.type = MT_ERROR
        /\ inbox["parent"][1].data.channel = pendingRequests["parent"][id].channel
        /\ promises["parent"][id].settled = <<>>
        /\ \E t \in timers["parent"] : t.id = id

\* C20: the armed timers are the timers of the pending requests, one for
\* each; a request whose promise is completed has neither a record nor a timer.
C20_TimersArePending ==
    \A s \in Sides :
        /\ { t.handle : t \in timers[s] } =
              { pendingRequests[s][id].timer : id \in DOMAIN pendingRequests[s] }
        /\ \A id \in DOMAIN pendingRequests[s] :
              /\ Cardinality({ t \in timers[s] : t.id = id }) = 1
              /\ \E t \in timers[s] : t.id = id /\ t.handle = pendingRequests[s][id].timer
              /\ promises[s][id].settled = <<>>
        /\ \A t \in timers[s] : t.id \in DOMAIN pendingRequests[s]
        /\ \A id \in DOMAIN promises[s] :
              promises[s][id].settled # <<>>
                  => /\ id \notin DOMAIN pendingRequests[s]
                     /\ \A t \in timers[s] : t.id # id

\* Of two requests one was resolved by its reply and left no timer; the
\* other is pending and its timer is the one armed.
C20_Witness ==
    \E id1, id2 \in DOMAIN promises["parent"] :
        /\ id1 # id2
        /\ promises["parent"][id1].settled # <<>>
        /\ promises["parent"][id1].settled[1].how = "resolve"
        /\ DOMAIN pendingRequests["parent"] = {id2}
        /\ Cardinality(timers["parent"]) = 1
        /\ \E t \in timers["parent"] : t.id = id2

\* C16: a promise completed by a reply is completed by the reply of the run
\* of handleRequest that carries its own identifier; and the dispatch of a
\* reply or the expiry of a timer changes the record, the timer and the
\* promise of no pending request but the one whose identifier it carries.
C16_OwnReplyOnly ==
    /\ [](\A s \in Sides : \A id \in DOMAIN promises[s] :
            \A k \in DOMAIN promises[s][id].settled :
                LET done == promises[s][id].settled[k]
                IN  done.how = "resolve"
                    => \E i \in DOMAIN calls[Peer(s)] :
                          LET call == calls[Peer(s)][i]
                          IN  /\ call.id = id
                              /\ call.data = promises[s][id].data
                              /\ call.replies # <<>>
                              /\ call.replies[1].id = id
                              /\ call.replies[1].data = done.value)
    /\ [][ \A s \in Sides :
             (Dispatched(s) \/ \E t \in timers[s] : TimerFire(s, t))
             => \A id \in DOMAIN pendingRequests[s] :
                   \/ Dispatched(s) /\ Head(inbox[s]).data.id = id
                   \/ ~Dispatched(s) /\ \E t \in timers[s] \ timers'[s] : t.id = id
                   \/ /\ id \in DOMAIN pendingRequests'[s]
                      /\ pendingRequests'[s][id] = pendingRequests[s][id]
                      /\ promises'[s][id] = promises[s][id]
                      /\ \E t \in timers'[s] :
                            t.id = id /\ t.handle = pendingRequests[s][id].timer
         ]_vars

\* Two requests for the same method of channel 'a' were in flight together;
\* the reply to the second arrived first and resolved the second with its
\* own value, and the first is still pending with its timer armed.
C16_Witness ==
    LET id1 == <<"string", 1>>
        id2 == <<"string", 2>>
        proms == promises["parent"]
    IN  /\ DOMAIN proms = {id1, id2}
        /\ proms[id1].channel = Some(<<"a">>) /\ proms[id2].channel = Some(<<"a">>)
        /\ proms[id1].method = proms[id2].method
        /\ proms[id2].settled =
              << Resolved(ReturnValue(Registration(Some(<<"a">>), <<"m">>), Payload(2))) >>
        /\ proms[id1].settled = <<>>
        /\ id1 \in DOMAIN pendingRequests["parent"]
        /\ \E t \in timers["parent"] : t.id = id1
        /\ Len(calls["child"]) = 2
        /\ calls["child"][1].id = id1
        /\ calls["child"][1].status = "running"

\* A run of handleRequest of side s is suspended at its await.
Running(s) == { i \in DOMAIN calls[s] : calls[s][i].status = "running" }

\* C15: while a run of handleRequest is suspended, a queued message event can
\* be dispatched, and its dispatch has its whole effect (a Request starts a
\* run, a reply for a pending request completes it, an Event calls the
\* listeners of its key) and leaves the suspended runs as they are; when the
\* handler's promise settles, the run posts one reply with its own identifier.
C15_DispatcherNotBlocked ==
    /\ [](\A s \in Sides :
            (Running(s) # {} /\ inbox[s] # <<>>) => ENABLED Deliver(s, {"fulfil", "reject"}))
    /\ [][ \A s \in Sides :
             (Dispatched(s) /\ Running(s) # {})
             => LET message == Head(inbox[s]).data
                    key == QualifiedKey(message.channel, Str(message.method))
                IN  /\ \A i \in Running(s) : calls'[s][i] = calls[s][i]
                    /\ message.type = MT_REQUEST
                          => /\ Len(calls'[s]) = Len(calls[s]) + 1
                             /\ calls'[s][Len(calls'[s])].id = message.id
                    /\ (message.type \in {MT_RESPONSE, MT_ERROR}
                           /\ message.id \in DOMAIN pendingRequests[s])
                          => /\ message.id \notin DOMAIN pendingRequests'[s]
                             /\ Len(promises'[s][message.id].settled) = 1
                    /\ (message.type = MT_EVENT /\ key \in DOMAIN eventHandlers[s])
                          => /\ Len(invoked'[s]) = Len(invoked[s]) + 1
                             /\ invoked'[s][Len(invoked'[s])].id = message.id
         ]_vars
    /\ [][ \A s \in Sides : \A i \in Running(s) :
             calls'[s][i].status = "done"
                 => /\ Len(calls'[s][i].replies) = 1
                    /\ calls'[s][i].replies[1].id = calls[s][i].id
                    /\ inbox'[Peer(s)] = Append(inbox[Peer(s)],
                          [origin |-> Origin(s), data |-> calls'[s][i].replies[1]])
         ]_vars

\* The frame's handler was called for the parent's request and has not
\* finished; the Error reply to the frame's own request, queued behind that
\* request, was dispatched meanwhile and rejected the frame's promise.
C15_Witness ==
    /\ Len(calls["child"]) = 1
    /\ calls["child"][1].id = <<"string", 1>>
    /\ calls["child"][1].status = "running"
    /\ DOMAIN promises["child"] = { <<"string", 2>> }
    /\ promises["child"][<<"string", 2>>].settled =
          << Rejected(NoHandlerText(promises["child"][<<"string", 2>>].method)) >>
    /\ DOMAIN pendingRequests["child"] = {}

\* The pairs of objects that two calls root.channel(name) with one name made.
SameName(s) ==
    { pair \in instances[s] \X instances[s] :
        /\ pair[1].serial # pair[2].serial
        /\ ~pair[1].this.isRootBridge /\ ~pair[2].this.isRootBridge
        /\ pair[1].via = Undefined /\ pair[2].via = Undefined
        /\ pair[1].name = pair[2].name }

\* C13: two objects made by two calls of channel() on the root with the same
\* name hold the same maps under the same channelName, and every method
\* (request, on, listen, off, destroy) called on the one changes the maps,
\* the timers and the promises and posts exactly as it does called on the
\* other.
C13_SameNameInterchangeable ==
    /\ [](\A s \in Sides : \A pair \in SameName(s) :
            /\ pair[1].this.channelName = pair[2].this.channelName
            /\ pair[1].this.handlers = pair[2].this.handlers
            /\ pair[1].this.eventHandlers = pair[2].this.eventHandlers
            /\ pair[1].this.pendingRequests = pair[2].this.pendingRequests
            /\ pair[1].this = pair[2].this)
    /\ [][ \A s \in Sides : \A pair \in SameName(s) :
             /\ RequestOn(pair[1].this, <<"m">>) <=> RequestOn(pair[2].this, <<"m">>)
             /\ OnOn(pair[1].this, <<"m">>) <=> OnOn(pair[2].this, <<"m">>)
             /\ ListenOn(pair[1].this, <<"m">>, "l1") <=> ListenOn(pair[2].this, <<"m">>, "l1")
             /\ OffOn(pair[1].this, <<"m">>, Some("l1"))
                   <=> OffOn(pair[2].this, <<"m">>, Some("l1"))
             /\ DestroyOn(pair[1].this) <=> DestroyOn(pair[2].this)
         ]_vars

\* The root made two objects for channel 'a'; a handler and a listener are
\* registered under 'a:m', and a request of channel 'a' was rejected by the
\* destroy() of a channel object.
C13_Witness ==
    /\ \E pair \in SameName("parent") : pair[1].name = <<"a">>
    /\ <<"a", ":", "m">> \in DOMAIN handlers["parent"]
    /\ <<"a", ":", "m">> \in DOMAIN eventHandlers["parent"]
    /\ \E id \in DOMAIN promises["parent"] :
          /\ promises["parent"][id].channel = Some(<<"a">>)
          /\ promises["parent"][id].settled = << Rejected(ChannelDestroyed) >>

\* C19: an object made by channel(n), on the root or on a channel, has n as
\* its channelName, the root object as its rootBridge and the root's maps,
\* and is equal to the object the root makes for n; no key of a map and no
\* envelope carries another channel's name as a further prefix.
C19_FlatNamespaces ==
    /\ \A s \in Sides : \A inst \in instances[s] :
          ~inst.this.isRootBridge
          => /\ inst.this.channelName = Some(inst.name)
             /\ inst.this.rootBridge = Some(Root(s))
             /\ inst.this.handlers = Root(s).handlers
             /\ inst.this.eventHandlers = Root(s).eventHandlers
             /\ inst.this.pendingRequests = Root(s).pendingRequests
             /\ \A other \in instances[s] :
                   (~other.this.isRootBridge /\ other.name = inst.name)
                       => other.this = inst.this
    /\ \A s \in Sides :
          /\ DOMAIN handlers[s] \cup DOMAIN eventHandlers[s]
                \subseteq { QualifiedKey(c, <<"m">>) : c \in Scopes }
          /\ \A id \in DOMAIN pendingRequests[s] : pendingRequests[s][id].channel \in Scopes
          /\ \A k \in DOMAIN inbox[s] : inbox[s][k].data.channel \in Scopes

\* The only object for channel 'b' was made by channel 'a'; through it a
\* handler was registered, under 'b:m', and a request sent, with channel 'b'.
C19_Witness ==
    /\ \E inst \in instances["parent"] : inst.name = <<"b">>
    /\ \A inst \in instances["parent"] : inst.name = <<"b">> => inst.via = Some(<<"a">>)
    /\ <<"b", ":", "m">> \in DOMAIN handlers["parent"]
    /\ <<"a", ":", "b", ":", "m">> \notin DOMAIN handlers["parent"]
    /\ \E id \in DOMAIN pendingRequests["parent"] :
          pendingRequests["parent"][id].channel = Some(<<"b">>)
    /\ \E k \in DOMAIN inbox["child"] :
          /\ inbox["child"][k].data.type = MT_REQUEST
          /\ inbox["child"][k].data.channel = Some(<<"b">>)

\* C21: two distinct pairs (scope, name) have distinct keys: the key of a
\* registered handler or listener is the key of no other pair; the handler a
\* request runs is the one registered for the request's own channel and
\* method; on() replaces the handler of its own pair only; and the destroy()
\* of a channel removes no handler and no listener of another scope.
C21_KeysInjective ==
    /\ [](\A s \in Sides :
            /\ \A key \in DOMAIN handlers[s] : \A t \in KeyTargets :
                  getHandlerKey(t[1], t[2], Undefined) = key
                      => t = << handlers[s][key].scope, handlers[s][key].method >>
            /\ \A key \in DOMAIN eventHandlers[s] : \A x \in eventHandlers[s][key] :
               \A t \in KeyTargets :
                  getHandlerKey(t[1], t[2], Undefined) = key => t = << x.scope, x.event >>
            /\ \A i \in DOMAIN calls[s] :
                  calls[s][i].reg # Undefined
                      => calls[s][i].reg =
                            Some(Registration(calls[s][i].channel, Str(calls[s][i].method))))
    /\ [][ \A s \in Sides : \A t \in KeyTargets :
             /\ On(s, t[1], t[2])
                   => \A key \in DOMAIN handlers[s] :
                         << handlers[s][key].scope, handlers[s][key].method >> # t
                             => /\ key \in DOMAIN handlers'[s]
                                /\ handlers'[s][key] = handlers[s][key]
             /\ (t[1] # Undefined /\ destroyChannel(s, t[1]))
                   => /\ \A key \in DOMAIN handlers[s] :
                            handlers[s][key].scope # t[1]
                                => /\ key \in DOMAIN handlers'[s]
                                   /\ handlers'[s][key] = handlers[s][key]
                      /\ \A key \in DOMAIN eventHandlers[s] :
                            { x \in eventHandlers[s][key] : x.scope # t[1] } =
                                IF key \in DOMAIN eventHandlers'[s]
                                THEN eventHandlers'[s][key] ELSE {}
         ]_vars

====
